---- MODULE Spec2Model ----
(***************************************************************************)
(* The notification dispatch and delivery-tracking engine                  *)
(* (NotificationsService): the notification table, the handlers of the     *)
(* service with their await points (findOne ... save), and the timers of   *)
(* processNotificationAsync.                                               *)
(***************************************************************************)
EXTENDS Integers, Sequences, FiniteSets, Bags, TLC

\* ---------------------------------------------------------------- bounds
\* Notification ids ever allocated.
MaxNotifs == 1
\* Largest value of the clock.
MaxTime == 1
\* Largest retry_count a retry or an update request may produce.
MaxRetry == 1
\* Outstanding 2000 ms delivery timers per notification.
MaxTimers == 1
\* Handlers that are between their findOne and their save at one time.
MaxInflight == 1
\* Notification ids ever allocated where bulk dispatch is modelled.
MaxBulkNotifs == 2
\* Longest recipient_ids list of a bulk request.
MaxRecipients == 3
\* Handlers between their findOne and their save, and delivery timers per
\* notification, where racing retries and timers are modelled.
MaxRaceInflight == 2
MaxRaceTimers == 2

\* ------------------------------------------------------------- nullables
\* A nullable column or an optional DTO property: <<>> is null/undefined,
\* <<v>> is the value v.
NULL == <<>>
Some(v) == <<v>>
IsSet(x) == Len(x) > 0
Val(x) == x[1]

\* ------------------------------------------------------------ enumerations
NotificationType == {"email", "push", "sms", "in_app"}
IN_APP == "in_app"
NotificationStatus == {"pending", "sent", "delivered", "failed", "bounced"}
PENDING == "pending"
SENT == "sent"
DELIVERED == "delivered"
FAILED == "failed"
BOUNCED == "bounced"

\* mapNotificationType / mapNotificationStatus: the lookup tables from the
\* DTO enums to the entity enums.
mapNotificationType(dtoType) ==
    CASE dtoType = "email" -> "email"
      [] dtoType = "push" -> "push"
      [] dtoType = "sms" -> "sms"
      [] dtoType = "in_app" -> IN_APP

mapNotificationStatus(dtoStatus) ==
    CASE dtoStatus = "pending" -> PENDING
      [] dtoStatus = "sent" -> SENT
      [] dtoStatus = "delivered" -> DELIVERED
      [] dtoStatus = "failed" -> FAILED
      [] dtoStatus = "bounced" -> BOUNCED

\* ------------------------------------------------------------------ inputs
\* The users table (userRepository).
Users == {"u1", "u2"}
\* The recipients dispatch requests name: a user, and an id of no user.
RecipientIds == {"u1", "ghost"}
\* The notification ids requests name: allocated or not.
Ids == 1..MaxNotifs
\* Channels and priorities the dispatch requests use.
DispatchTypes == {"email", "in_app"}
Priorities == {Some("high")}
\* The recipient_ids lists and the channels of the bulk requests.
BulkRecipients == {"u1", "u2", "ghost"}
BulkRequests == UNION {[1..n -> BulkRecipients] : n \in 1..MaxRecipients}
BulkTypes == {"email", "in_app"}
BulkIds == 1..MaxBulkNotifs
\* The userId a request passes on: none, or a user.
OptionalUsers == {NULL} \cup {Some(x) : x \in Users}

VARIABLES
    store,      \* the notifications table: id -> row, for the ids present
    nextId,     \* ids allocated so far, plus one
    now,        \* the clock (Date.now())
    timers,     \* id -> number of outstanding 2000 ms timers
    confirms,   \* bag of the notification objects held by 1000 ms timers
    inflight,   \* bag of handlers between their findOne and their save
    response    \* what the handler that completed in the last step returned

vars == <<store, nextId, now, timers, confirms, inflight, response>>

\* ------------------------------------------------------------------ entity
\* NewNotification with the status column defaulting to sent.
NewNotificationSent(recipient, type, payload, t) ==
    [ recipient_id |-> recipient, type |-> type, template |-> "welcome",
      subject |-> "subject", content |-> "content", payload |-> payload,
      status |-> SENT, external_id |-> NULL, error_message |-> NULL,
      retry_count |-> 0, sent_at |-> NULL, delivered_at |-> NULL,
      opened_at |-> NULL, clicked_at |-> NULL, created_at |-> t ]

\* A row as the entity's column defaults leave it after an insert at time t.
\* The column updated_at, which the database stamps and nothing reads, is
\* left out.
NewNotification(recipient, type, payload, t) ==
    [ recipient_id |-> recipient,
      type |-> type,
      template |-> "welcome",
      subject |-> "subject",
      content |-> "content",
      payload |-> payload,
      status |-> PENDING,
      external_id |-> NULL,
      error_message |-> NULL,
      retry_count |-> 0,
      sent_at |-> NULL,
      delivered_at |-> NULL,
      opened_at |-> NULL,
      clicked_at |-> NULL,
      created_at |-> t ]

\* transformNotificationToDto: the row with its id and is_read.
transformNotificationToDto(id, n) ==
    [ id |-> id,
      recipient_id |-> n.recipient_id,
      type |-> n.type,
      template |-> n.template,
      subject |-> n.subject,
      content |-> n.content,
      payload |-> n.payload,
      status |-> n.status,
      external_id |-> n.external_id,
      error_message |-> n.error_message,
      retry_count |-> n.retry_count,
      sent_at |-> n.sent_at,
      delivered_at |-> n.delivered_at,
      opened_at |-> n.opened_at,
      clicked_at |-> n.clicked_at,
      created_at |-> n.created_at,
      is_read |-> IsSet(n.opened_at) ]

\* repository.save(entity) of an entity that carries an id: the row with that
\* id takes the entity's columns; when no row has that id the entity is
\* inserted.
Save(st, id, ent) ==
    [i \in DOMAIN st \cup {id} |-> IF i = id THEN ent ELSE st[i]]

\* repository.remove(entity): DELETE of the row with that id.
Remove(st, id) == [i \in DOMAIN st \ {id} |-> st[i]]

\* ---------------------------------------------------------------- responses
NoResponse == [op |-> "none", outcome |-> "none", body |-> NULL]
Ok(op, body) == [op |-> op, outcome |-> "ok", body |-> Some(body)]
NotFoundException(op) == [op |-> op, outcome |-> "NotFound", body |-> NULL]
BadRequestException(op) == [op |-> op, outcome |-> "BadRequest", body |-> NULL]

InflightCount == BagCardinality(inflight)
Handler(op, id, ent) == [op |-> op, id |-> id, ent |-> ent]

Init ==
    /\ store = << >>
    /\ nextId = 1
    /\ now = 0
    /\ timers = [i \in Ids |-> 0]
    /\ confirms = EmptyBag
    /\ inflight = EmptyBag
    /\ response = NoResponse

\* The clock advances.
Tick ==
    /\ now < MaxTime
    /\ now' = now + 1
    /\ response' = NoResponse
    /\ UNCHANGED <<store, nextId, timers, confirms, inflight>>

\* createNotification without the recipient check.
CreateNotificationNoCheck(recipient, type, priority) ==
    /\ nextId <= MaxNotifs
    /\ store' = Save(store, nextId,
                     [ recipient_id |-> recipient, type |-> type,
                       template |-> "welcome", subject |-> "subject",
                       content |-> "content",
                       payload |-> [priority |-> priority, bulk_id |-> NULL],
                       status |-> PENDING, external_id |-> NULL,
                       error_message |-> NULL, retry_count |-> 0,
                       sent_at |-> NULL, delivered_at |-> NULL,
                       opened_at |-> NULL, clicked_at |-> NULL,
                       created_at |-> now ])
    /\ timers' = [timers EXCEPT ![nextId] = @ + 1]
    /\ response' = Ok("create", transformNotificationToDto(nextId, store'[nextId]))
    /\ nextId' = nextId + 1
    /\ UNCHANGED <<now, confirms, inflight>>

\* ------------------------------------------------------- createNotification
CreatePayload(priority) ==
    [ priority |-> priority, bulk_id |-> NULL ]

CreateNotification(recipient, type, priority) ==
    IF recipient \notin Users
    THEN /\ response' = NotFoundException("create")
         /\ UNCHANGED <<store, nextId, now, timers, confirms, inflight>>
    ELSE /\ nextId <= MaxNotifs
         /\ LET id == nextId
                n == NewNotification(recipient, mapNotificationType(type),
                                     CreatePayload(priority), now)
            IN /\ store' = Save(store, id, n)
               /\ timers' = [timers EXCEPT ![id] = @ + 1]
               /\ response' = Ok("create", transformNotificationToDto(id, store'[id]))
         /\ nextId' = nextId + 1
         /\ UNCHANGED <<now, confirms, inflight>>

\* ------------------------------------------------------ getNotificationById
\* getNotificationById that answers a default record for an id it does not
\* find.
GetNotificationByIdLenient(id, userId) ==
    /\ response' = IF id \in DOMAIN store
                   THEN Ok("get", transformNotificationToDto(id, store[id]))
                   ELSE Ok("get", [id |-> id])
    /\ UNCHANGED <<store, nextId, now, timers, confirms, inflight>>

\* The row with this id, of this recipient when userId is given; userId is
\* NULL when none is passed.
GetNotificationById(id, userId) ==
    /\ response' =
          IF \/ id \notin DOMAIN store
             \/ (IsSet(userId) /\ store[id].recipient_id # Val(userId))
          THEN NotFoundException("get")
          ELSE Ok("get", transformNotificationToDto(id, store[id]))
    /\ UNCHANGED <<store, nextId, now, timers, confirms, inflight>>

\* ------------------------------------------------------- updateNotification
\* An UpdateNotificationDto: every property optional.
NoUpdate ==
    [ status |-> NULL, external_id |-> NULL, error_message |-> NULL,
      retry_count |-> NULL, sent_at |-> NULL, delivered_at |-> NULL,
      opened_at |-> NULL, clicked_at |-> NULL ]

\* The update requests issued: a bare status, the provider's failure callback
\* and a retry_count.
UpdateDtos ==
    {[NoUpdate EXCEPT !.status = Some(s)] : s \in NotificationStatus}
    \cup {[NoUpdate EXCEPT !.status = Some("failed"), !.error_message = Some("err")]}
    \cup {[NoUpdate EXCEPT !.retry_count = Some(c)] : c \in 0..MaxRetry}

\* new Date(isoString) of a DTO timestamp.
ParseDate(x) == Some(Val(x))

\* The assignments of updateNotification, which also rewrite the content.
ApplyUpdateEditsContent(n, dto) ==
    [ n EXCEPT
        !.status = IF IsSet(dto.status)
                   THEN mapNotificationStatus(Val(dto.status)) ELSE @,
        !.error_message = IF IsSet(dto.error_message) THEN dto.error_message ELSE @,
        !.retry_count = IF IsSet(dto.retry_count) THEN Val(dto.retry_count) ELSE @,
        !.content = "edited" ]

\* Lines 239-270: each property that is not undefined is assigned.
ApplyUpdate(n, dto) ==
    [ n EXCEPT
        !.status = IF IsSet(dto.status)
                   THEN mapNotificationStatus(Val(dto.status)) ELSE @,
        !.external_id = IF IsSet(dto.external_id) THEN dto.external_id ELSE @,
        !.error_message = IF IsSet(dto.error_message) THEN dto.error_message ELSE @,
        !.retry_count = IF IsSet(dto.retry_count) THEN Val(dto.retry_count) ELSE @,
        !.sent_at = IF IsSet(dto.sent_at) THEN ParseDate(dto.sent_at) ELSE @,
        !.delivered_at = IF IsSet(dto.delivered_at)
                         THEN ParseDate(dto.delivered_at) ELSE @,
        !.opened_at = IF IsSet(dto.opened_at) THEN ParseDate(dto.opened_at) ELSE @,
        !.clicked_at = IF IsSet(dto.clicked_at) THEN ParseDate(dto.clicked_at) ELSE @ ]

\* updateNotification up to its save: findOne, the NotFound check, the
\* assignments.
UpdateNotification(id, dto) ==
    IF id \notin DOMAIN store
    THEN /\ response' = NotFoundException("update")
         /\ UNCHANGED <<store, nextId, now, timers, confirms, inflight>>
    ELSE /\ InflightCount < MaxInflight
         /\ inflight' = inflight (+) SetToBag({Handler("update", id,
                                                     ApplyUpdate(store[id], dto))})
         /\ response' = NoResponse
         /\ UNCHANGED <<store, nextId, now, timers, confirms>>

\* updateNotification's save and return.
UpdateNotificationSave(h) ==
    /\ h.op = "update"
    /\ store' = Save(store, h.id, h.ent)
    /\ inflight' = inflight (-) SetToBag({h})
    /\ response' = Ok("update", transformNotificationToDto(h.id, store'[h.id]))
    /\ UNCHANGED <<nextId, now, timers, confirms>>

\* --------------------------------------------------------------- markAsRead
\* The lookup of markAsRead without its type condition.
FindAnyChannel(id, userId) ==
    IF id \in DOMAIN store /\ store[id].recipient_id = userId
    THEN Some(store[id]) ELSE NULL

\* The row findOne({id, recipient_id, type: IN_APP}) returns, if any.
FindInApp(id, userId) ==
    IF /\ id \in DOMAIN store
       /\ store[id].recipient_id = userId
       /\ store[id].type = IN_APP
    THEN Some(store[id]) ELSE NULL

\* markAsRead that stamps opened_at whether or not it is set.
MarkAsReadAlways(id, userId) ==
    IF ~(id \in DOMAIN store /\ store[id].recipient_id = userId
         /\ store[id].type = IN_APP)
    THEN /\ response' = NotFoundException("read")
         /\ UNCHANGED <<store, nextId, now, timers, confirms, inflight>>
    ELSE /\ InflightCount < MaxInflight
         /\ inflight' = inflight (+) SetToBag({Handler("read", id,
                              [store[id] EXCEPT !.opened_at = Some(now)])})
         /\ response' = NoResponse
         /\ UNCHANGED <<store, nextId, now, timers, confirms>>

\* markAsRead up to its save; it returns at once when opened_at is set.
MarkAsRead(id, userId) ==
    LET found == FindInApp(id, userId) IN
    IF ~IsSet(found)
    THEN /\ response' = NotFoundException("read")
         /\ UNCHANGED <<store, nextId, now, timers, confirms, inflight>>
    ELSE IF IsSet(Val(found).opened_at)
    THEN /\ response' = Ok("read", transformNotificationToDto(id, Val(found)))
         /\ UNCHANGED <<store, nextId, now, timers, confirms, inflight>>
    ELSE /\ InflightCount < MaxInflight
         /\ inflight' = inflight (+) SetToBag({Handler("read", id,
                              [Val(found) EXCEPT !.opened_at = Some(now)])})
         /\ response' = NoResponse
         /\ UNCHANGED <<store, nextId, now, timers, confirms>>

MarkAsReadSave(h) ==
    /\ h.op = "read"
    /\ store' = Save(store, h.id, h.ent)
    /\ inflight' = inflight (-) SetToBag({h})
    /\ response' = Ok("read", transformNotificationToDto(h.id, store'[h.id]))
    /\ UNCHANGED <<nextId, now, timers, confirms>>

\* ------------------------------------------------------------ markAllAsRead
\* The WHERE clause without its channel condition.
UnreadAnyChannel(userId) ==
    {i \in DOMAIN store : /\ store[i].recipient_id = userId
                          /\ ~IsSet(store[i].opened_at)}

\* The rows the UPDATE's WHERE clause selects.
UnreadInApp(userId) ==
    {i \in DOMAIN store : /\ store[i].recipient_id = userId
                          /\ store[i].type = IN_APP
                          /\ ~IsSet(store[i].opened_at)}

MarkAllAsRead(userId) ==
    /\ store' = [i \in DOMAIN store |->
                   IF i \in UnreadInApp(userId)
                   THEN [store[i] EXCEPT !.opened_at = Some(now)]
                   ELSE store[i]]
    /\ response' = Ok("read-all", [updated_count |-> Cardinality(UnreadInApp(userId))])
    /\ UNCHANGED <<nextId, now, timers, confirms, inflight>>

\* -------------------------------------------------------- retryNotification
\* retryNotification without its status check.
RetryNotificationAnyStatus(id) ==
    IF id \notin DOMAIN store
    THEN /\ response' = NotFoundException("retry")
         /\ UNCHANGED <<store, nextId, now, timers, confirms, inflight>>
    ELSE /\ InflightCount < MaxInflight
         /\ store[id].retry_count < MaxRetry
         /\ inflight' = inflight (+) SetToBag({Handler("retry", id,
                              [store[id] EXCEPT !.status = PENDING,
                                                !.retry_count = @ + 1,
                                                !.error_message = NULL])})
         /\ response' = NoResponse
         /\ UNCHANGED <<store, nextId, now, timers, confirms>>

\* retryNotification up to its save: findOne, the two checks, the reset;
\* with at most maxInflight handlers suspended at a time.
RetryNotificationUpTo(id, maxInflight) ==
    IF id \notin DOMAIN store
    THEN /\ response' = NotFoundException("retry")
         /\ UNCHANGED <<store, nextId, now, timers, confirms, inflight>>
    ELSE IF store[id].status # FAILED
    THEN /\ response' = BadRequestException("retry")
         /\ UNCHANGED <<store, nextId, now, timers, confirms, inflight>>
    ELSE /\ InflightCount < maxInflight
         /\ store[id].retry_count < MaxRetry
         /\ inflight' = inflight (+) SetToBag({Handler("retry", id,
                              [store[id] EXCEPT !.status = PENDING,
                                                !.retry_count = @ + 1,
                                                !.error_message = NULL])})
         /\ response' = NoResponse
         /\ UNCHANGED <<store, nextId, now, timers, confirms>>

RetryNotification(id) == RetryNotificationUpTo(id, MaxInflight)

\* retryNotification's save without the call of processNotificationAsync.
RetryNotificationSaveNoTimer(h) ==
    /\ h.op = "retry"
    /\ store' = Save(store, h.id, h.ent)
    /\ inflight' = inflight (-) SetToBag({h})
    /\ response' = Ok("retry", transformNotificationToDto(h.id, store'[h.id]))
    /\ UNCHANGED <<nextId, now, timers, confirms>>

\* retryNotification's save, the call of processNotificationAsync, the
\* return; with at most maxTimers timers outstanding for the notification.
RetryNotificationSaveUpTo(h, maxTimers) ==
    /\ h.op = "retry"
    /\ timers[h.id] < maxTimers
    /\ store' = Save(store, h.id, h.ent)
    /\ timers' = [timers EXCEPT ![h.id] = @ + 1]
    /\ inflight' = inflight (-) SetToBag({h})
    /\ response' = Ok("retry", transformNotificationToDto(h.id, store'[h.id]))
    /\ UNCHANGED <<nextId, now, confirms>>

RetryNotificationSave(h) == RetryNotificationSaveUpTo(h, MaxTimers)

\* ------------------------------------------------------- deleteNotification
\* deleteNotification up to its remove; userId is NULL when none is passed.
DeleteNotification(id, userId) ==
    IF \/ id \notin DOMAIN store
       \/ (IsSet(userId) /\ store[id].recipient_id # Val(userId))
    THEN /\ response' = NotFoundException("delete")
         /\ UNCHANGED <<store, nextId, now, timers, confirms, inflight>>
    ELSE /\ InflightCount < MaxInflight
         /\ inflight' = inflight (+) SetToBag({Handler("delete", id, store[id])})
         /\ response' = NoResponse
         /\ UNCHANGED <<store, nextId, now, timers, confirms>>

DeleteNotificationRemove(h) ==
    /\ h.op = "delete"
    /\ store' = Remove(store, h.id)
    /\ inflight' = inflight (-) SetToBag({h})
    /\ response' = [op |-> "delete", outcome |-> "ok", body |-> NULL]
    /\ UNCHANGED <<nextId, now, timers, confirms>>

\* ------------------------------------------------- processNotificationAsync
\* The 2000 ms timer fires: findOne, and for a pending row the assignments of
\* status and sent_at, up to the save; with at most maxInflight handlers
\* suspended at a time.
ProcessTimerUpTo(id, maxInflight) ==
    /\ timers[id] > 0
    /\ timers' = [timers EXCEPT ![id] = @ - 1]
    /\ response' = NoResponse
    /\ IF id \in DOMAIN store /\ store[id].status = PENDING
       THEN /\ InflightCount < maxInflight
            /\ inflight' = inflight (+) SetToBag({Handler("send", id,
                              [store[id] EXCEPT !.status = SENT,
                                                !.sent_at = Some(now)])})
       ELSE UNCHANGED inflight
    /\ UNCHANGED <<store, nextId, now, confirms>>

ProcessTimer(id) == ProcessTimerUpTo(id, MaxInflight)

\* The save of a notification that the send marks bounced.
ProcessSaveBounced(h) ==
    /\ h.op = "send"
    /\ BagCardinality(confirms) < MaxTimers
    /\ store' = Save(store, h.id, [h.ent EXCEPT !.status = BOUNCED])
    /\ confirms' = confirms (+) SetToBag({[id |-> h.id, ent |-> store'[h.id]]})
    /\ inflight' = inflight (-) SetToBag({h})
    /\ response' = NoResponse
    /\ UNCHANGED <<nextId, now, timers>>

\* The save of the sent notification; the 1000 ms timer set just before it
\* holds the same notification object, and its callback is taken to run after
\* this save has completed.
ProcessSave(h) ==
    /\ h.op = "send"
    /\ BagCardinality(confirms) < MaxTimers
    /\ store' = Save(store, h.id, h.ent)
    /\ confirms' = confirms (+) SetToBag({[id |-> h.id, ent |-> store'[h.id]]})
    /\ inflight' = inflight (-) SetToBag({h})
    /\ response' = NoResponse
    /\ UNCHANGED <<nextId, now, timers>>

\* The 1000 ms callback without its delivered_at assignment.
ProcessConfirmNoStamp(c) ==
    /\ BagIn(c, confirms)
    /\ store' = Save(store, c.id, [c.ent EXCEPT !.status = DELIVERED])
    /\ confirms' = confirms (-) SetToBag({c})
    /\ response' = NoResponse
    /\ UNCHANGED <<nextId, now, timers, inflight>>

\* The 1000 ms timer fires: the object becomes delivered and is saved, with
\* no read of the row.
ProcessConfirm(c) ==
    /\ BagIn(c, confirms)
    /\ store' = Save(store, c.id, [c.ent EXCEPT !.status = DELIVERED,
                                               !.delivered_at = Some(now)])
    /\ confirms' = confirms (-) SetToBag({c})
    /\ response' = NoResponse
    /\ UNCHANGED <<nextId, now, timers, inflight>>

Handlers == BagToSet(inflight)

Next ==
    \/ Tick
    \/ \E r \in RecipientIds, ty \in DispatchTypes, p \in Priorities :
          CreateNotification(r, ty, p)
    \/ \E id \in Ids, u \in OptionalUsers : GetNotificationById(id, u)
    \/ \E id \in Ids, dto \in UpdateDtos : UpdateNotification(id, dto)
    \/ \E h \in Handlers : UpdateNotificationSave(h)
    \/ \E id \in Ids, u \in Users : MarkAsRead(id, u)
    \/ \E h \in Handlers : MarkAsReadSave(h)
    \/ \E u \in Users : MarkAllAsRead(u)
    \/ \E id \in Ids : RetryNotification(id)
    \/ \E h \in Handlers : RetryNotificationSave(h)
    \/ \E id \in Ids, u \in OptionalUsers : DeleteNotification(id, u)
    \/ \E h \in Handlers : DeleteNotificationRemove(h)
    \/ \E id \in Ids : ProcessTimer(id)
    \/ \E h \in Handlers : ProcessSave(h)
    \/ \E c \in BagToSet(confirms) : ProcessConfirm(c)

Spec == Init /\ [][Next]_vars

\* -------------------------------------------------- createBulkNotifications
\* The ids of the rows userRepository.find({id: In(recipient_ids)}) returns:
\* one per user named, however often the list names it.
FoundRecipientIds(ids) == {ids[i] : i \in DOMAIN ids} \cap Users

\* The rows come back in an order the query does not fix.
Orders(S) ==
    {f \in [1..Cardinality(S) -> S] : \A i, j \in DOMAIN f : i # j => f[i] # f[j]}

\* failedRecipientIds with nothing reported.
FailedRecipientIdsNone(ids) == << >>

\* recipient_ids.filter(id => !foundRecipientIds.includes(id))
IsFound(ids, x) == x \in FoundRecipientIds(ids)
FailedRecipientIds(ids) == SelectSeq(ids, LAMBDA x : ~IsFound(ids, x))

\* The payload of a bulk notification built when Date.now() is t.
BulkPayload(priority, t) ==
    [ priority |-> IF IsSet(priority) THEN priority ELSE Some("normal"),
      bulk_id |-> Some(<<"bulk", t>>) ]

\* createBulkNotifications. The loop reads Date.now() once per recipient:
\* the clock may advance after the first k iterations. The array is inserted
\* by one save, then each row gets its delivery timer.
CreateBulkNotifications(ids, type, priority) ==
    \E order \in Orders(FoundRecipientIds(ids)) :
    \E k \in {Len(order)} \cup (IF now < MaxTime THEN 1..(Len(order) - 1) ELSE {}) :
       LET n == Len(order)
           newIds == nextId..(nextId + n - 1)
           stamp(i) == IF i <= k THEN now ELSE now + 1
           end == IF k < n THEN now + 1 ELSE now
           built(i) == NewNotification(order[i], mapNotificationType(type),
                                       BulkPayload(priority, stamp(i)), end)
       IN /\ nextId + n - 1 <= MaxBulkNotifs
          /\ store' = [i \in DOMAIN store \cup newIds |->
                         IF i \in newIds THEN built(i - nextId + 1) ELSE store[i]]
          /\ nextId' = nextId + n
          /\ now' = end
          /\ timers' = [i \in DOMAIN timers |->
                          IF i \in newIds THEN timers[i] + 1 ELSE timers[i]]
          /\ response' = Ok("bulk",
                [ notifications |->
                     [i \in 1..n |-> transformNotificationToDto(nextId + i - 1,
                                                                store'[nextId + i - 1])],
                  total_created |-> n,
                  failed_recipients |-> FailedRecipientIds(ids) ])
          /\ UNCHANGED <<confirms, inflight>>

\* ----------------------------------------------------- getNotificationStats
TwentyFourHours == 24
SecondsPerHour == 3600

\* A rate that is 100 when nothing is counted.
PercentOfNothingIsAll(num, den) ==
    IF den > 0 THEN (num * 20000 + den) \div (2 * den) ELSE 10000

\* den > 0 ? (num / den) * 100 : 0, then Math.round(x * 100) / 100: the
\* rate in hundredths of a percent.
Percent(num, den) ==
    IF den > 0 THEN (num * 20000 + den) \div (2 * den) ELSE 0

\* EXTRACT(EPOCH FROM delivered_at - created_at), summed over the rows S.
RECURSIVE SumDeliverySeconds(_)
SumDeliverySeconds(S) ==
    IF S = {} THEN 0
    ELSE LET x == CHOOSE y \in S : TRUE
         IN (Val(store[x].delivered_at) - store[x].created_at) * SecondsPerHour
               + SumDeliverySeconds(S \ {x})

\* The rows the queries select: all, or those of userId.
StatsScope(userId) ==
    {i \in DOMAIN store : ~IsSet(userId) \/ store[i].recipient_id = Val(userId)}

\* COUNT(*) ... GROUP BY: a count for each value that occurs.
GroupCount(rows, column) ==
    [v \in {store[i][column] : i \in rows} |->
        Cardinality({i \in rows : store[i][column] = v})]

\* byStatus[status] || 0
CountOr0(counts, v) == IF v \in DOMAIN counts THEN counts[v] ELSE 0

\* AVG(EXTRACT(EPOCH FROM delivered_at - created_at)) over the delivered
\* rows, parseFloat(...) || 0, rounded: in hundredths of a second.
AvgDeliveryTime(rows) ==
    LET done == {i \in rows : IsSet(store[i].delivered_at)}
    IN IF done = {} THEN 0
       ELSE (SumDeliverySeconds(done) * 200 + Cardinality(done))
               \div (2 * Cardinality(done))

\* What getNotificationStats answers; its queries are taken to read the table
\* at one instant.
NotificationStats(userId) ==
    LET rows == StatsScope(userId)
        byStatus == GroupCount(rows, "status")
        deliveredCount == CountOr0(byStatus, DELIVERED)
        sentCount == CountOr0(byStatus, SENT)
        totalSent == deliveredCount + sentCount + CountOr0(byStatus, FAILED)
        openedCount == Cardinality({i \in rows : IsSet(store[i].opened_at)})
        clickedCount == Cardinality({i \in rows : IsSet(store[i].clicked_at)})
    IN [ total_notifications |-> Cardinality(rows),
         by_type |-> GroupCount(rows, "type"),
         by_status |-> byStatus,
         by_template |-> GroupCount(rows, "template"),
         delivery_rate |-> Percent(deliveredCount + sentCount, totalSent),
         open_rate |-> Percent(openedCount, deliveredCount + sentCount),
         click_rate |-> Percent(clickedCount, openedCount),
         recent_notifications |->
            Cardinality({i \in rows : store[i].created_at >= now - TwentyFourHours}),
         failed_notifications |-> CountOr0(byStatus, FAILED),
         avg_delivery_time |-> AvgDeliveryTime(rows) ]

GetNotificationStats(userId) ==
    /\ response' = Ok("stats", NotificationStats(userId))
    /\ UNCHANGED <<store, nextId, now, timers, confirms, inflight>>

\* ------------------------------------- bulk dispatch, read-all and statistics
InitBulk ==
    /\ store = << >>
    /\ nextId = 1
    /\ now = 0
    /\ timers = [i \in BulkIds |-> 0]
    /\ confirms = EmptyBag
    /\ inflight = EmptyBag
    /\ response = NoResponse

NextBulk ==
    \/ Tick
    \/ \E ids \in BulkRequests, ty \in BulkTypes : CreateBulkNotifications(ids, ty, NULL)
    \/ \E u \in Users : MarkAllAsRead(u)
    \/ \E u \in OptionalUsers : GetNotificationStats(u)

SpecBulk == InitBulk /\ [][NextBulk]_vars

\* ------------------------------------------ single dispatch and statistics
NextStats ==
    \/ Tick
    \/ \E r \in RecipientIds, ty \in DispatchTypes, p \in Priorities :
          CreateNotification(r, ty, p)
    \/ \E id \in Ids : ProcessTimer(id)
    \/ \E h \in Handlers : ProcessSave(h)
    \/ \E c \in BagToSet(confirms) : ProcessConfirm(c)
    \/ \E id \in Ids, u \in Users : MarkAsRead(id, u)
    \/ \E h \in Handlers : MarkAsReadSave(h)
    \/ \E u \in OptionalUsers : GetNotificationStats(u)

SpecStats == Init /\ [][NextStats]_vars

\* ------------------------------------------------ racing retries and timers
\* The provider's failure callback.
FailureCallback ==
    [NoUpdate EXCEPT !.status = Some("failed"), !.error_message = Some("err")]

NextRace ==
    \/ Tick
    \/ \E ty \in DispatchTypes, p \in Priorities : CreateNotification("u1", ty, p)
    \/ \E id \in Ids : UpdateNotification(id, FailureCallback)
    \/ \E h \in Handlers : UpdateNotificationSave(h)
    \/ \E id \in Ids : RetryNotificationUpTo(id, MaxRaceInflight)
    \/ \E h \in Handlers : RetryNotificationSaveUpTo(h, MaxRaceTimers)
    \/ \E id \in Ids : ProcessTimerUpTo(id, MaxRaceInflight)
    \/ \E h \in Handlers : ProcessSave(h)
    \/ \E c \in BagToSet(confirms) : ProcessConfirm(c)

SpecRace == Init /\ [][NextRace]_vars

\* ------------------------------------------------- delivery under fairness
NextLive ==
    \/ Tick
    \/ \E ty \in DispatchTypes, p \in Priorities : CreateNotification("u1", ty, p)
    \/ \E id \in Ids : MarkAsRead(id, "u1")
    \/ \E h \in Handlers : MarkAsReadSave(h)
    \/ \E id \in Ids : UpdateNotification(id, FailureCallback)
    \/ \E h \in Handlers : UpdateNotificationSave(h)
    \/ \E id \in Ids : RetryNotificationUpTo(id, MaxRaceInflight)
    \/ \E h \in Handlers : RetryNotificationSaveUpTo(h, MaxRaceTimers)
    \/ \E id \in Ids : ProcessTimerUpTo(id, MaxRaceInflight)
    \/ \E h \in Handlers : ProcessSave(h)
    \/ \E c \in BagToSet(confirms) : ProcessConfirm(c)

\* A timer that is set fires, and a save that is awaited completes; requests
\* arrive or not.
Fairness ==
    /\ WF_vars(\E id \in Ids : ProcessTimerUpTo(id, MaxRaceInflight))
    /\ WF_vars(\E h \in Handlers : ProcessSave(h))
    /\ WF_vars(\E c \in BagToSet(confirms) : ProcessConfirm(c))
    /\ WF_vars(\E h \in Handlers : MarkAsReadSave(h))
    /\ WF_vars(\E h \in Handlers : UpdateNotificationSave(h))
    /\ WF_vars(\E h \in Handlers : RetryNotificationSaveUpTo(h, MaxRaceTimers))

SpecLive == Init /\ [][NextLive]_vars /\ Fairness

\* ------------------------------------- the engine without a reported bounce
\* The update requests that do not report a bounce.
NoBounceDtos == {dto \in UpdateDtos : dto.status # Some("bounced")}

NextNoBounce ==
    \/ Tick
    \/ \E r \in RecipientIds, ty \in DispatchTypes, p \in Priorities :
          CreateNotification(r, ty, p)
    \/ \E id \in Ids, dto \in NoBounceDtos : UpdateNotification(id, dto)
    \/ \E h \in Handlers : UpdateNotificationSave(h)
    \/ \E id \in Ids, u \in Users : MarkAsRead(id, u)
    \/ \E h \in Handlers : MarkAsReadSave(h)
    \/ \E u \in Users : MarkAllAsRead(u)
    \/ \E id \in Ids : RetryNotification(id)
    \/ \E h \in Handlers : RetryNotificationSave(h)
    \/ \E id \in Ids : ProcessTimer(id)
    \/ \E h \in Handlers : ProcessSave(h)
    \/ \E c \in BagToSet(confirms) : ProcessConfirm(c)

SpecNoBounce == Init /\ [][NextNoBounce]_vars

\* ------------------------------------ statistics of several notifications
NextRates ==
    \/ Tick
    \/ \E ids \in BulkRequests, ty \in BulkTypes : CreateBulkNotifications(ids, ty, NULL)
    \/ \E u \in Users : MarkAllAsRead(u)
    \/ \E id \in BulkIds : ProcessTimer(id)
    \/ \E h \in Handlers : ProcessSave(h)
    \/ \E c \in BagToSet(confirms) : ProcessConfirm(c)
    \/ \E u \in OptionalUsers : GetNotificationStats(u)

SpecRates == InitBulk /\ [][NextRates]_vars

\* ---------------------------------------------------------------- claims
\* The transition table of the delivery state machine.
ValidEdges ==
    { <<PENDING, SENT>>, <<PENDING, FAILED>>, <<SENT, DELIVERED>>,
      <<SENT, BOUNCED>>, <<FAILED, PENDING>> }

Present(id) == id \in DOMAIN store /\ id \in DOMAIN store'

\* C1: every notification enters the store with status pending, and every
\* change of a stored status follows an edge of the transition table (in
\* particular never pending -> delivered).
C1_StatusFollowsEdges ==
    [][\A id \in Ids :
         /\ (id \in DOMAIN store' /\ id \notin DOMAIN store)
               => store'[id].status = PENDING
         /\ (Present(id) /\ store'[id].status # store[id].status)
               => <<store[id].status, store'[id].status>> \in ValidEdges]_vars

\* C2: an update request whose (stored status, requested status) pair is not
\* an edge of the table is rejected at once: it answers with an error, changes
\* no row and leaves nothing behind that will write later.
C2_InvalidUpdateRejected ==
    [][\A id \in Ids, dto \in UpdateDtos :
         ( /\ id \in DOMAIN store
           /\ IsSet(dto.status)
           /\ <<store[id].status, mapNotificationStatus(Val(dto.status))>>
                 \notin ValidEdges
           /\ UpdateNotification(id, dto) )
         => /\ response'.op = "update"
            /\ response'.outcome \notin {"ok", "none"}
            /\ store' = store
            /\ inflight' = inflight]_vars

\* C3: a notification whose stored status is delivered never has its status
\* changed to pending or sent.
C3_DeliveredNeverDemoted ==
    [][\A id \in Ids :
         (Present(id) /\ store[id].status = DELIVERED)
            => store'[id].status \notin {PENDING, SENT}]_vars

\* C4: a dispatch that names a recipient who is no user answers NotFound, adds
\* no row, allocates no id and arms no delivery timer; every stored row
\* belongs to a user.
C4_DispatchUnknownRecipient ==
    [][/\ \A r \in RecipientIds \ Users, ty \in DispatchTypes, p \in Priorities :
            CreateNotification(r, ty, p)
               => /\ response' = NotFoundException("create")
                  /\ UNCHANGED <<store, nextId, timers, confirms, inflight>>
       /\ \A id \in DOMAIN store' : store'[id].recipient_id \in Users]_vars

C4_Witness ==
    /\ response.op = "create"
    /\ response.outcome = "NotFound"

\* C5: a dispatch that succeeds adds exactly one row, under a fresh id, with
\* status pending, retry_count 0, no error message and no timestamps; the
\* row is stored in the step that answers, the record answered is that row
\* with status pending, and one delivery timer is armed for it.
C5_DispatchCreatesPending ==
    [][(response'.op = "create" /\ response'.outcome = "ok")
         => LET dto == Val(response'.body)
                id == dto.id
            IN /\ id \notin DOMAIN store
               /\ DOMAIN store' = DOMAIN store \cup {id}
               /\ \A i \in DOMAIN store : store'[i] = store[i]
               /\ store'[id].status = PENDING
               /\ store'[id].retry_count = 0
               /\ store'[id].error_message = NULL
               /\ store'[id].sent_at = NULL
               /\ store'[id].delivered_at = NULL
               /\ store'[id].opened_at = NULL
               /\ store'[id].clicked_at = NULL
               /\ dto = transformNotificationToDto(id, store'[id])
               /\ dto.status = "pending"
               /\ timers' = [timers EXCEPT ![id] = @ + 1]
               /\ UNCHANGED <<confirms, inflight>>]_vars

C5_Witness ==
    /\ response.op = "create"
    /\ response.outcome = "ok"
    /\ Val(response.body).id \in DOMAIN store
    /\ store[Val(response.body).id].status = PENDING

\* C6: a retry of a notification whose status is not failed answers with a
\* BadRequest error, changes no row and arms no delivery timer.
C6_RetryNonFailedRejected ==
    [][\A id \in Ids :
         (id \in DOMAIN store /\ store[id].status # FAILED /\ RetryNotification(id))
            => /\ response' = BadRequestException("retry")
               /\ UNCHANGED <<store, timers, confirms, inflight>>]_vars

C6_Witness ==
    /\ response = BadRequestException("retry")
    /\ \E id \in DOMAIN store : store[id].status = DELIVERED

\* The retry handlers a step starts, and the one a step completes.
Started(h) == CopiesIn(h, inflight') = CopiesIn(h, inflight) + 1
Completed(h) == inflight' = inflight (-) SetToBag({h})

C8_RetryCountMonotone ==
    [][\A id \in Ids :
         Present(id) => store'[id].retry_count >= store[id].retry_count]_vars

\* C9: markAsRead by the recipient of an in-app notification whose opened_at
\* is set succeeds at once, answers that opened_at and changes no row.
C9_MarkReadIdempotent ==
    [][\A id \in Ids, u \in Users :
         ( /\ IsSet(FindInApp(id, u))
           /\ IsSet(store[id].opened_at)
           /\ MarkAsRead(id, u) )
         => /\ response'.op = "read"
            /\ response'.outcome = "ok"
            /\ Val(response'.body).opened_at = store[id].opened_at
            /\ UNCHANGED <<store, inflight, timers, confirms>>]_vars

\* A markAsRead has answered, after the clock moved, the opened_at stamped
\* earlier, which is still the stored one.
C9_Witness ==
    /\ response.op = "read"
    /\ response.outcome = "ok"
    /\ inflight = EmptyBag
    /\ LET dto == Val(response.body)
       IN /\ IsSet(dto.opened_at)
          /\ Val(dto.opened_at) < now
          /\ store[dto.id].opened_at = dto.opened_at

\* C10: markAsRead of a stored notification that is not in-app, or whose
\* recipient is another user, answers NotFound and changes no row.
C10_MarkReadNotFound ==
    [][\A id \in Ids, u \in Users :
         ( /\ id \in DOMAIN store
           /\ (store[id].type # IN_APP \/ store[id].recipient_id # u)
           /\ MarkAsRead(id, u) )
         => /\ response' = NotFoundException("read")
            /\ UNCHANGED <<store, inflight, timers, confirms>>]_vars

C10_Witness ==
    /\ response = NotFoundException("read")
    /\ \E id \in DOMAIN store : store[id].type # IN_APP

\* C17: getNotificationById, updateNotification, markAsRead,
\* retryNotification and deleteNotification, called with an id that is not in
\* the store, answer NotFound and change nothing.
C17_UnknownIdNotFound ==
    [][\A id \in Ids :
         id \notin DOMAIN store =>
           /\ \A u \in OptionalUsers :
                 GetNotificationById(id, u)
                    => response' = NotFoundException("get") /\ store' = store
           /\ \A dto \in UpdateDtos :
                 UpdateNotification(id, dto)
                    => /\ response' = NotFoundException("update")
                       /\ UNCHANGED <<store, inflight, timers, confirms>>
           /\ \A u \in Users :
                 MarkAsRead(id, u)
                    => /\ response' = NotFoundException("read")
                       /\ UNCHANGED <<store, inflight, timers, confirms>>
           /\ RetryNotification(id)
                 => /\ response' = NotFoundException("retry")
                    /\ UNCHANGED <<store, inflight, timers, confirms>>
           /\ \A u \in OptionalUsers :
                 DeleteNotification(id, u)
                    => /\ response' = NotFoundException("delete")
                       /\ UNCHANGED <<store, inflight, timers, confirms>>]_vars

\* An update of a notification that was deleted has answered NotFound.
C17_Witness ==
    /\ response = NotFoundException("update")
    /\ nextId > 1
    /\ store = << >>

\* C18: once sent_at, delivered_at, opened_at or clicked_at of a notification
\* is set, no step changes its value.
C18_TimestampsSetOnce ==
    [][\A id \in Ids :
         Present(id) =>
           /\ IsSet(store[id].sent_at) => store'[id].sent_at = store[id].sent_at
           /\ IsSet(store[id].delivered_at)
                 => store'[id].delivered_at = store[id].delivered_at
           /\ IsSet(store[id].opened_at)
                 => store'[id].opened_at = store[id].opened_at
           /\ IsSet(store[id].clicked_at)
                 => store'[id].clicked_at = store[id].clicked_at]_vars

\* C19: no step changes the recipient_id, type, template, subject or content
\* of a stored notification (its id is the key it is stored under), and no
\* handler or timer holds an entity that would.
SameIdentity(a, b) ==
    /\ a.recipient_id = b.recipient_id
    /\ a.type = b.type
    /\ a.template = b.template
    /\ a.subject = b.subject
    /\ a.content = b.content

C19_IdentityImmutable ==
    [][\A id \in Ids :
         /\ Present(id) => SameIdentity(store'[id], store[id])
         /\ \A h \in BagToSet(inflight') :
               (h.id = id /\ id \in DOMAIN store') => SameIdentity(h.ent, store'[id])
         /\ \A c \in BagToSet(confirms') :
               (c.id = id /\ id \in DOMAIN store') => SameIdentity(c.ent, store'[id])]_vars

\* A notification that was updated to failed, retried, delivered by the
\* timers and marked read still has the identity it was created with.
C19_Witness ==
    \E id \in DOMAIN store :
       /\ store[id].status = DELIVERED
       /\ store[id].retry_count = 1
       /\ IsSet(store[id].opened_at)
       /\ store[id].recipient_id = "u1"
       /\ store[id].type = IN_APP
       /\ store[id].template = "welcome"
       /\ store[id].subject = "subject"
       /\ store[id].content = "content"

\* The steps of the asynchronous delivery path.
EngineStep ==
    \/ \E id \in Ids : ProcessTimer(id)
    \/ \E h \in Handlers : ProcessSave(h)
    \/ \E c \in BagToSet(confirms) : ProcessConfirm(c)

\* C20: a step of the asynchronous delivery path never changes the status of
\* a notification whose stored status is delivered, bounced or failed.
C20_EngineLeavesTerminal ==
    [][EngineStep =>
         \A id \in Ids :
            (Present(id) /\ store[id].status \in {DELIVERED, BOUNCED, FAILED})
               => store'[id].status = store[id].status]_vars

\* C11: markAllAsRead(u) stamps opened_at with the current time on exactly
\* the in_app notifications of u that have none, answers their number, leaves
\* every other notification as it was, and leaves nothing for a repeated
\* call to update.
C11_MarkAllReadExact ==
    [][\A u \in Users :
         MarkAllAsRead(u) =>
           LET unread == {i \in DOMAIN store : /\ store[i].recipient_id = u
                                               /\ store[i].type = "in_app"
                                               /\ store[i].opened_at = NULL}
           IN /\ response'.body = Some([updated_count |-> Cardinality(unread)])
              /\ DOMAIN store' = DOMAIN store
              /\ \A i \in unread :
                    store'[i] = [store[i] EXCEPT !.opened_at = Some(now)]
              /\ \A i \in DOMAIN store \ unread : store'[i] = store[i]
              /\ \A i \in DOMAIN store' :
                    (store'[i].recipient_id = u /\ store'[i].type = "in_app")
                       => store'[i].opened_at # NULL]_vars

\* markAllAsRead has just updated one notification while an unread in_app
\* notification of another recipient is stored.
C11_Witness ==
    /\ response.op = "read-all"
    /\ response.body = Some([updated_count |-> 1])
    /\ \E i, j \in DOMAIN store :
          /\ store[i].recipient_id # store[j].recipient_id
          /\ store[i].type = "in_app" /\ store[j].type = "in_app"
          /\ store[i].opened_at # NULL
          /\ store[j].opened_at = NULL

\* C12: createBulkNotifications creates pending notifications for the
\* recipients that exist and only for them, answers the requested ids that
\* do not exist as failed_recipients, and reports as total_created the
\* number of rows it added.
C12_BulkPartialSuccess ==
    [][\A ids \in BulkRequests, ty \in BulkTypes :
         CreateBulkNotifications(ids, ty, NULL) =>
           LET added == DOMAIN store' \ DOMAIN store
               body == Val(response'.body)
               requested == {ids[i] : i \in DOMAIN ids}
           IN /\ body.failed_recipients = SelectSeq(ids, LAMBDA x : x \notin Users)
              /\ body.total_created = Cardinality(added)
              /\ Len(body.notifications) = Cardinality(added)
              /\ {store'[i].recipient_id : i \in added} = requested \cap Users
              /\ \A i \in added : store'[i].status = "pending"
              /\ \A i \in DOMAIN store : store'[i] = store[i]]_vars

\* A bulk request naming two users and one unknown id has created two
\* notifications and reported the unknown id.
C12_Witness ==
    /\ response.op = "bulk"
    /\ Val(response.body).total_created = 2
    /\ Val(response.body).failed_recipients = <<"ghost">>
    /\ {store[i].recipient_id : i \in DOMAIN store} = {"u1", "u2"}
    /\ \A i \in DOMAIN store : store[i].status = "pending"

\* C13: createBulkNotifications creates one notification for each occurrence
\* of an existing recipient in the request.
C13_BulkOnePerOccurrence ==
    [][\A ids \in BulkRequests, ty \in BulkTypes :
         CreateBulkNotifications(ids, ty, NULL) =>
           Cardinality(DOMAIN store' \ DOMAIN store)
              = Len(SelectSeq(ids, LAMBDA x : x \in Users))]_vars

\* C14: the notifications one createBulkNotifications call answers all carry
\* the same bulk_id.
C14_BulkSharesBulkId ==
    response.op = "bulk" =>
       \A i, j \in DOMAIN Val(response.body).notifications :
          Val(response.body).notifications[i].payload.bulk_id
             = Val(response.body).notifications[j].payload.bulk_id

\* C15: getNotificationStats over no notification, in the whole table or
\* for one recipient, answers a total of 0, rates of 0 and an average
\* delivery time of 0.
C15_StatsOfNothing ==
    [][\A u \in OptionalUsers :
         (/\ GetNotificationStats(u)
          /\ \A i \in DOMAIN store : u # NULL /\ store[i].recipient_id # Val(u))
         => /\ response'.outcome = "ok"
            /\ Val(response'.body).total_notifications = 0
            /\ Val(response'.body).delivery_rate = 0
            /\ Val(response'.body).open_rate = 0
            /\ Val(response'.body).click_rate = 0
            /\ Val(response'.body).avg_delivery_time = 0]_vars

\* The statistics of a recipient without notifications were answered while
\* notifications of another recipient are stored.
C15_Witness ==
    /\ response.op = "stats"
    /\ Val(response.body).total_notifications = 0
    /\ Val(response.body).delivery_rate = 0
    /\ store # << >>

\* C16: createNotification for an existing recipient stores a pending
\* notification; the save of the 2000 ms callback stores it as sent with
\* sent_at set; the 1000 ms callback stores it as delivered with
\* delivered_at set; and the statistics of a table whose only notification
\* went this way show a delivery_rate of 100.00.
C16_SuccessPath ==
    [][/\ \A r \in RecipientIds, ty \in DispatchTypes, p \in Priorities :
            (CreateNotification(r, ty, p) /\ r \in Users)
               => /\ nextId \in DOMAIN store'
                  /\ store'[nextId].status = "pending"
       /\ \A h \in Handlers :
            ProcessSave(h) => /\ store'[h.id].status = "sent"
                              /\ store'[h.id].sent_at # NULL
       /\ \A c \in BagToSet(confirms) :
            ProcessConfirm(c) => /\ store'[c.id].status = "delivered"
                                 /\ store'[c.id].sent_at # NULL
                                 /\ store'[c.id].delivered_at # NULL
       /\ \A u \in OptionalUsers :
            (/\ GetNotificationStats(u)
             /\ \E i \in DOMAIN store : u = NULL \/ store[i].recipient_id = Val(u)
             /\ \A i \in DOMAIN store :
                   (u = NULL \/ store[i].recipient_id = Val(u))
                      => store[i].status = "delivered")
            => Val(response'.body).delivery_rate = 10000]_vars

\* The statistics were answered for a table whose one notification, an email,
\* is delivered with sent_at and delivered_at set: delivery_rate is 100.00.
C16_Witness ==
    /\ response.op = "stats"
    /\ Val(response.body).total_notifications = 1
    /\ Val(response.body).delivery_rate = 10000
    /\ DOMAIN store = {1}
    /\ store[1].type = "email"
    /\ store[1].status = "delivered"
    /\ store[1].sent_at # NULL
    /\ store[1].delivered_at # NULL

\* The status a handler saw in the row it read: markAsRead keeps it in its
\* entity, the 2000 ms callback goes on only for pending, retryNotification
\* only for failed.
SeenStatus(h) ==
    IF h.op = "send" THEN PENDING
    ELSE IF h.op = "retry" THEN FAILED
    ELSE h.ent.status

\* C21: the operations on one notification are linearized: whenever a
\* handler or a timer callback writes a notification, the stored row still
\* has the status the writer saw when it read it, so no write based on a
\* stale read replaces a newer status.
C21_NoStaleStatusWrite ==
    [][/\ \A h \in Handlers :
            (MarkAsReadSave(h) \/ ProcessSave(h) \/ RetryNotificationSave(h))
               => /\ h.id \in DOMAIN store
                  /\ store[h.id].status = SeenStatus(h)
       /\ \A c \in BagToSet(confirms) :
            ProcessConfirm(c) => /\ c.id \in DOMAIN store
                                 /\ store[c.id].status = c.ent.status]_vars

\* A retryNotification call on id returns its notification in this step.
RetrySucceeds(id) ==
    \E h \in Handlers :
       h.id = id /\ RetryNotificationSaveUpTo(h, MaxRaceTimers)

\* C22: retry_count counts the retries that succeeded: the step in which a
\* retryNotification call returns raises the stored retry_count by one, and
\* no other step changes it.
C22_RetryCountCountsRetries ==
    [][\A id \in Ids :
         (id \in DOMAIN store /\ id \in DOMAIN store')
            => store'[id].retry_count
                  = store[id].retry_count + (IF RetrySucceeds(id) THEN 1 ELSE 0)]_vars

\* C23: under fair scheduling of the timers and the saves, a notification
\* that is pending does not stay pending: it gets another status (sent, or
\* failed once a send timeout expires) or is deleted.
C23_PendingEventuallyLeaves ==
    \A id \in Ids :
       (id \in DOMAIN store /\ store[id].status = PENDING)
          ~> (id \notin DOMAIN store \/ store[id].status # PENDING)

\* C24: a stored notification whose status is failed has an error_message,
\* and the notification a createNotification or retryNotification call
\* answers is pending with no error_message.
C24_FailedHasErrorMessage ==
    /\ \A id \in DOMAIN store :
          store[id].status = FAILED => store[id].error_message # NULL
    /\ (response.op \in {"create", "retry"} /\ response.outcome = "ok")
          => /\ Val(response.body).status = "pending"
             /\ Val(response.body).error_message = NULL

C26_DeletedStaysDeleted ==
    [][\A id \in Ids :
         (id \in DOMAIN store' /\ id \notin DOMAIN store) => id >= nextId]_vars

\* C27: the save of markAsRead changes opened_at only: the status, sent_at,
\* delivered_at, retry_count and error_message stored after it are those
\* stored before it, whatever was written since markAsRead read the row.
C27_MarkReadWritesOpenedAtOnly ==
    [][\A h \in Handlers :
         MarkAsReadSave(h) =>
            /\ h.id \in DOMAIN store
            /\ store'[h.id].status = store[h.id].status
            /\ store'[h.id].sent_at = store[h.id].sent_at
            /\ store'[h.id].delivered_at = store[h.id].delivered_at
            /\ store'[h.id].retry_count = store[h.id].retry_count
            /\ store'[h.id].error_message = store[h.id].error_message]_vars

\* C28: a stored notification whose status is sent has sent_at set, and one
\* whose status is delivered has sent_at and delivered_at set.
C28_StatusHasTimestamps ==
    \A id \in DOMAIN store :
       /\ store[id].status = SENT => store[id].sent_at # NULL
       /\ store[id].status = DELIVERED
             => (store[id].sent_at # NULL /\ store[id].delivered_at # NULL)

\* C29: the delivery_rate, open_rate and click_rate that
\* getNotificationStats answers are each between 0 and 100.
C29_RatesWithinRange ==
    response.op = "stats" =>
       /\ Val(response.body).delivery_rate \in 0..10000
       /\ Val(response.body).open_rate \in 0..10000
       /\ Val(response.body).click_rate \in 0..10000

\* C30: one entry of a notification into pending (its creation, or one
\* retry, told apart by retry_count) is sent once: no two 2000 ms callbacks
\* are at their save with the send of the same notification and the same
\* retry_count.
C30_OneSendPerPending ==
    \A h1, h2 \in Handlers :
       (/\ h1.op = "send" /\ h2.op = "send"
        /\ h1.id = h2.id
        /\ h1.ent.retry_count = h2.ent.retry_count)
       => (h1 = h2 /\ CopiesIn(h1, inflight) = 1)
====
